---- MODULE Spec2Model ----
(***************************************************************************)
(* A model of statement_vtab.c: the SQLite "statement" virtual table.       *)
(* The table exposes a read-only prepared statement; its bind parameters    *)
(* are hidden columns.  xBestIndex turns equality constraints on hidden     *)
(* columns into a plan (argvIndex per constraint and, when the constrained  *)
(* columns are not contiguous, an idxStr payload of encoded parameter       *)
(* indexes); xFilter binds the arguments of that plan and steps the         *)
(* cursor's statement; xNext/xEof/xColumn/xRowid serve the rows.            *)
(***************************************************************************)
EXTENDS Integers, Sequences, FiniteSets, TLC

VARIABLES
    vtab,        \* struct statement_vtab: num_inputs, num_outputs (sql text abstracted)
    index_info,  \* the sqlite3_index_info last filled in by xBestIndex
    cursors,     \* cursor id -> struct statement_cursor (or the closed cursor)
    aborted,     \* TRUE once assert() or memcpy in xFilter has terminated the process
    last,        \* the callback the host invoked last, its arguments and result
    param_map,   \* a parameter map buffer driven directly through the codec
    encoded,     \* slot -> the index last encoded into that slot of param_map
    create,      \* a call of xCreate in progress, its connection and what it allocated
    probe        \* a function applied directly: its input and its result

vars == <<vtab, index_info, cursors, aborted, last, param_map, encoded, create, probe>>

(***************************************************************************)
(* Bounds of the model.                                                     *)
(***************************************************************************)
MaxInputs == 3       \* bind parameters (hidden columns) of the small tables
MaxOutputs == 1      \* result columns of the small tables
MaxConstraints == 2  \* length of the constraint lists the host proposes
MaxVal == 2          \* distinct argument values the host passes to xFilter
MaxRows == 2         \* rows a statement yields before it must report DONE
MaxSlots == 2        \* slots of the buffer driven directly through the codec
MaxColumns == 2      \* result columns of the statements a schema is built for
SizeSpread == 10     \* how far around each boundary constraint counts are drawn

(***************************************************************************)
(* Program constants.                                                       *)
(***************************************************************************)
IntBits == 32        \* sizeof(int)*CHAR_BIT
GroupBits == 6       \* bits per encoded character
GroupMask == 63      \* mask of one 6 bit group
CharBias == 33       \* offset into the printable ASCII range
MaskBits == 64       \* width of the used_cols / required_cols bitmask
SizeMaxDiv == 715827882  \* (SIZE_MAX-1)/param_idx_size with a 32 bit size_t

NULL == <<>>         \* the null pointer, for idxStr (a payload is never empty)
NoValue == "no value"    \* xColumn left the result unset (SQL NULL)
Unbound == "unbound"     \* a statement parameter that has no binding
Uninit == "uninitialized" \* memory sqlite3_malloc returned and nobody wrote

\* the values the host passes: MaxVal distinct SQL values
Values == {ToString(v) : v \in 1..MaxVal}

Min(a, b) == IF a < b THEN a ELSE b

(***************************************************************************)
(* Bit operations on non-negative ints.                                     *)
(***************************************************************************)
Shr(x, n) == x \div (2 ^ n)
Shl(x, n) == x * (2 ^ n)

RECURSIVE BitOr(_, _)
BitOr(a, b) ==
    IF a = 0 THEN b
    ELSE IF b = 0 THEN a
    ELSE (IF a % 2 = 1 \/ b % 2 = 1 THEN 1 ELSE 0) + 2 * BitOr(a \div 2, b \div 2)

(***************************************************************************)
(* Parameter map encoding for xBestIndex/xFilter.                           *)
(* A map is a sequence of chars; C offset k is element k+1.                 *)
(***************************************************************************)
param_idx_size == (IntBits + 5) \div GroupBits

\* a faulty variant: groups of 5 bits
EncodedChars_5bit(param_idx) ==
    [j \in 1..param_idx_size |-> (Shr(param_idx, GroupBits * (j - 1)) % 32) + CharBias]

\* a faulty variant: the groups are stored as they are
EncodedChars_NoBias(param_idx) ==
    [j \in 1..param_idx_size |-> Shr(param_idx, GroupBits * (j - 1)) % (GroupMask + 1)]

\* the chars the loop writes for param_idx, least significant group first
EncodedChars(param_idx) ==
    [j \in 1..param_idx_size |->
        (Shr(param_idx, GroupBits * (j - 1)) % (GroupMask + 1)) + CharBias]

\* the loop writes param_map[i*param_idx_size+j] for j < param_idx_size
encode_param_idx(i, param_map_in, param_idx) ==
    SubSeq(param_map_in, 1, i * param_idx_size)
        \o EncodedChars(param_idx)
        \o SubSeq(param_map_in, (i + 1) * param_idx_size + 1, Len(param_map_in))

RECURSIVE DecodeLoop(_, _, _, _)
DecodeLoop(i, param_map_in, j, param_idx) ==
    IF j >= param_idx_size THEN param_idx
    ELSE DecodeLoop(i, param_map_in, j + 1,
            BitOr(param_idx,
                  Shl(param_map_in[i * param_idx_size + j + 1] - CharBias,
                      GroupBits * j)))

\* a faulty variant: the payload is ignored
decode_param_idx_sequential(i, param_map_in) == i + 1

decode_param_idx(i, param_map_in) == DecodeLoop(i, param_map_in, 0, 0)

(***************************************************************************)
(* xBestIndex.  A constraint is [iColumn, op, usable]; the host hands in    *)
(* aConstraintUsage zeroed and idxStr NULL.                                 *)
(***************************************************************************)
UninitChar == -1     \* a char of the freshly allocated idxStr

IndexInfo(aConstraint) ==
    [aConstraint      |-> aConstraint,
     aConstraintUsage |-> [i \in 1..Len(aConstraint) |-> [argvIndex |-> 0, omit |-> 0]],
     idxStr           |-> NULL,
     needToFreeIdxStr |-> 0,
     orderByConsumed  |-> 0,
     estimatedCost    |-> 0,
     estimatedRows    |-> 0,
     rc               |-> "none"]

NoPlan == IndexInfo(<<>>)

\* a faulty variant: the usable flag is not looked at
ScanStep_IgnoreUsable(num_outputs, c, i, st) ==
    IF c.op = "LIMIT" \/ c.op = "OFFSET" \/ c.iColumn < num_outputs THEN st
    ELSE IF c.op # "EQ" THEN [st EXCEPT !.rc = "SQLITE_CONSTRAINT"]
    ELSE [st EXCEPT
            !.usage[i] = [argvIndex |-> c.iColumn - num_outputs + 1, omit |-> 1],
            !.col_max = IF c.iColumn - num_outputs + 1 > @
                        THEN c.iColumn - num_outputs + 1 ELSE @,
            !.used_cols = IF c.iColumn - num_outputs < MaskBits
                          THEN @ \cup {c.iColumn - num_outputs} ELSE @,
            !.out_constraints = @ + 1]

\* one pass of the body of the first loop of xBestIndex, at constraint i;
\* st carries the locals, st.rc # "SQLITE_OK" once the loop has returned
ScanStep(num_outputs, c, i, st) ==
    IF c.op = "LIMIT" \/ c.op = "OFFSET" \/ c.iColumn < num_outputs THEN st
    ELSE IF ~c.usable \/ c.op # "EQ" THEN [st EXCEPT !.rc = "SQLITE_CONSTRAINT"]
    ELSE [st EXCEPT
            !.usage[i] = [argvIndex |-> c.iColumn - num_outputs + 1, omit |-> 1],
            !.col_max = IF c.iColumn - num_outputs + 1 > @
                        THEN c.iColumn - num_outputs + 1 ELSE @,
            !.used_cols = IF c.iColumn - num_outputs < MaskBits
                          THEN @ \cup {c.iColumn - num_outputs} ELSE @,
            !.out_constraints = @ + 1]

\* the first loop of xBestIndex, from constraint i on
RECURSIVE ScanConstraints(_, _, _, _)
ScanConstraints(num_outputs, aConstraint, i, st) ==
    IF i > Len(aConstraint) \/ st.rc # "SQLITE_OK" THEN st
    ELSE ScanConstraints(num_outputs, aConstraint, i + 1,
                         ScanStep(num_outputs, aConstraint[i], i, st))

\* (col_max < 64 ? 1ull << col_max : 0ull)-1, as the set of the bits that are set
required_cols(col_max) ==
    IF col_max < MaskBits THEN 0..(col_max - 1) ELSE 0..(MaskBits - 1)

\* a faulty variant: out_constraints is not compared with col_max
IsContiguous_NoCountCheck(st) ==
    st.col_max <= MaskBits /\ st.used_cols = required_cols(st.col_max)

\* col_max <= 64 && used_cols == required_cols && out_constraints == col_max
IsContiguous(st) ==
    /\ st.col_max <= MaskBits
    /\ st.used_cols = required_cols(st.col_max)
    /\ st.out_constraints = st.col_max

\* a faulty variant: argvIndex keeps the column number
EncodeStep_KeepArgv(i, acc) ==
    IF acc.usage[i].argvIndex = 0 THEN acc
    ELSE [usage |-> acc.usage,
          idxStr |-> encode_param_idx(acc.constraint_idx, acc.idxStr, acc.usage[i].argvIndex),
          constraint_idx |-> acc.constraint_idx + 1]

\* one pass of the body of the second loop of xBestIndex, at constraint i
EncodeStep(i, acc) ==
    IF acc.usage[i].argvIndex = 0 THEN acc
    ELSE [usage |-> [acc.usage EXCEPT ![i].argvIndex = acc.constraint_idx + 1],
          idxStr |-> encode_param_idx(acc.constraint_idx, acc.idxStr, acc.usage[i].argvIndex),
          constraint_idx |-> acc.constraint_idx + 1]

\* the second loop of xBestIndex, from constraint i on
RECURSIVE EncodeLoop(_, _)
EncodeLoop(i, acc) ==
    IF i > Len(acc.usage) THEN acc ELSE EncodeLoop(i + 1, EncodeStep(i, acc))

\* size_t values are kept as two halves, [hi, lo], so that a product that
\* does not fit can be told from one that does
Half == 2 ^ (IntBits \div 2)

SizeValue(size) == size.hi * Half + size.lo

\* out_constraints*param_idx_size+1 as a number, hi not cut off
ExactSize(out_constraints) ==
    [hi |-> (out_constraints \div Half) * param_idx_size
               + (((out_constraints % Half) * param_idx_size + 1) \div Half),
     lo |-> ((out_constraints % Half) * param_idx_size + 1) % Half]

\* out_constraints*param_idx_size+1 as the code computes it, in size_t
PayloadSize(out_constraints) ==
    [ExactSize(out_constraints) EXCEPT !.hi = @ % Half]

\* a faulty variant: no count is too large
TooManyConstraints_Never(out_constraints) == FALSE

\* (size_t)out_constraints > (SIZE_MAX-1)/param_idx_size
TooManyConstraints(out_constraints) == out_constraints > SizeMaxDiv

\* the size check and the allocation of idxStr.  allocated is the size asked
\* of sqlite3_malloc64, NULL when it is not called or fails; alloc_ok says
\* whether sqlite3_malloc64 and sqlite3_mprintf succeed.  A message is the
\* sequence of its pieces
AllocPayload(pVTab, out_constraints, alloc_ok) ==
    IF TooManyConstraints(out_constraints)
    THEN IF alloc_ok
         THEN [rc |-> "SQLITE_ERROR",
               zErrMsg |-> <<"Too many constraints to index: ", ToString(out_constraints)>>,
               allocated |-> NULL]
         ELSE [rc |-> "SQLITE_NOMEM", zErrMsg |-> NULL, allocated |-> NULL]
    ELSE IF ~alloc_ok
    THEN [rc |-> "SQLITE_NOMEM", zErrMsg |-> pVTab.zErrMsg, allocated |-> NULL]
    ELSE [rc |-> "SQLITE_OK", zErrMsg |-> pVTab.zErrMsg,
          allocated |-> PayloadSize(out_constraints)]

\* xBestIndex after the first loop has accepted every constraint and found
\* the columns not contiguous: the size check, the allocation, the second loop
MapConstraints(pVTab, info, st, alloc_ok) ==
    IF AllocPayload(pVTab, st.out_constraints, alloc_ok).rc # "SQLITE_OK"
    THEN [info |-> [info EXCEPT !.rc = AllocPayload(pVTab, st.out_constraints, alloc_ok).rc],
          zErrMsg |-> AllocPayload(pVTab, st.out_constraints, alloc_ok).zErrMsg]
    ELSE [info |-> [info EXCEPT
                      !.aConstraintUsage =
                          EncodeLoop(1, [usage |-> st.usage, constraint_idx |-> 0,
                                         idxStr |-> [k \in 1..SizeValue(PayloadSize(st.out_constraints))
                                                        |-> UninitChar]]).usage,
                      !.idxStr =
                          [EncodeLoop(1, [usage |-> st.usage, constraint_idx |-> 0,
                                          idxStr |-> [k \in 1..SizeValue(PayloadSize(st.out_constraints))
                                                         |-> UninitChar]]).idxStr
                              EXCEPT ![st.out_constraints * param_idx_size + 1] = 0],
                      !.needToFreeIdxStr = 1,
                      !.rc = "SQLITE_OK"],
          zErrMsg |-> pVTab.zErrMsg]

\* xBestIndex after its first loop, which left st
PlanConstraints(pVTab, info, st, alloc_ok) ==
    IF st.rc = "SQLITE_CONSTRAINT"
    THEN [info |-> [info EXCEPT !.aConstraintUsage = st.usage, !.rc = "SQLITE_CONSTRAINT"],
          zErrMsg |-> pVTab.zErrMsg]
    ELSE IF st.out_constraints = 0 \/ IsContiguous(st)
    THEN [info |-> [info EXCEPT !.aConstraintUsage = st.usage, !.rc = "SQLITE_OK"],
          zErrMsg |-> pVTab.zErrMsg]
    ELSE MapConstraints(pVTab, [info EXCEPT !.aConstraintUsage = st.usage], st, alloc_ok)

\* statement_vtab_best_index; alloc_ok says whether sqlite3_malloc64 and
\* sqlite3_mprintf succeed.  The result is [info, zErrMsg].
statement_vtab_best_index(pVTab, info, alloc_ok) ==
    PlanConstraints(pVTab,
        [info EXCEPT !.orderByConsumed = 0, !.estimatedCost = 1, !.estimatedRows = 1],
        ScanConstraints(pVTab.num_outputs, info.aConstraint, 1,
            [usage |-> info.aConstraintUsage, col_max |-> 0, used_cols |-> {},
             out_constraints |-> 0, rc |-> "SQLITE_OK"]),
        alloc_ok)

(***************************************************************************)
(* The constraint lists the host proposes.                                  *)
(***************************************************************************)
Constraint(iColumn, op, usable) == [iColumn |-> iColumn, op |-> op, usable |-> usable]

\* usable equality constraints on the first hidden columns
EqConstraints(vt) ==
    {Constraint(vt.num_outputs + h, "EQ", TRUE) : h \in 0..(Min(vt.num_inputs, MaxInputs) - 1)}

\* everything else the host may propose: a constraint on the last hidden
\* column, constraints the planner rejects, constraints it ignores
OtherConstraints(vt) ==
    {Constraint(vt.num_outputs + vt.num_inputs - 1, "EQ", TRUE),
     Constraint(vt.num_outputs, "EQ", FALSE),
     Constraint(vt.num_outputs, "LT", TRUE),
     Constraint(0, "LT", FALSE),
     Constraint(-1, "EQ", TRUE),
     Constraint(vt.num_outputs, "LIMIT", TRUE),
     Constraint(vt.num_outputs, "OFFSET", FALSE)}

ListsOver(S) == UNION {[1..n -> S] : n \in 0..MaxConstraints}

\* usable equality constraints on the hidden columns lo..hi, in column order
Run(vt, lo, hi) ==
    [i \in 1..(hi - lo + 1) |-> Constraint(vt.num_outputs + lo + i - 1, "EQ", TRUE)]

Reverse(s) == [i \in 1..Len(s) |-> s[Len(s) + 1 - i]]

\* long lists around the width of the bitmask, for tables with that many inputs
WideLists(vt) ==
    IF vt.num_inputs <= MaskBits THEN {}
    ELSE {Run(vt, 0, MaskBits - 2), Run(vt, 0, MaskBits - 1), Run(vt, 0, MaskBits),
          Reverse(Run(vt, 0, MaskBits - 1)), Reverse(Run(vt, 0, MaskBits)),
          Run(vt, 1, MaskBits), Run(vt, 0, MaskBits - 2) \o Run(vt, MaskBits, MaskBits),
          Run(vt, 0, MaskBits - 1) \o Run(vt, 0, 0)}

SmallTables == [num_inputs : 1..MaxInputs, num_outputs : 1..MaxOutputs, zErrMsg : {NULL}]
WideTables == [num_inputs : {MaskBits + 1}, num_outputs : {1}, zErrMsg : {NULL}]

(***************************************************************************)
(* The cursor's private statement (sqlite3_stmt), as far as the module      *)
(* uses it: its bindings, whether it is positioned on a row, and how many   *)
(* rows it has produced since it was last reset.                            *)
(***************************************************************************)
\* sqlite3_prepare_v2 on the table's sql: nothing bound, not yet stepped
Prepared(pVTab) ==
    [bindings |-> [p \in 1..pVTab.num_inputs |-> Unbound], state |-> "READY", row |-> 0]

sqlite3_reset(stmt) == [stmt EXCEPT !.state = "READY", !.row = 0]

\* a faulty variant: the bindings stay
sqlite3_clear_bindings_noop(stmt) == stmt

sqlite3_clear_bindings(stmt) == [stmt EXCEPT !.bindings = [p \in DOMAIN @ |-> Unbound]]

\* sqlite3_step with the outcome the statement produces: a statement that
\* is not on a row starts over from its first row
sqlite3_step(stmt, outcome) ==
    IF outcome = "SQLITE_ROW"
    THEN [stmt EXCEPT !.state = "ROW", !.row = IF stmt.state = "ROW" THEN @ + 1 ELSE 1]
    ELSE IF outcome = "SQLITE_DONE"
    THEN [stmt EXCEPT !.state = "DONE", !.row = 0]
    ELSE [stmt EXCEPT !.state = "ERROR", !.row = 0]

\* true when the statement has been stepped and has neither run to
\* completion, failed, nor been reset
sqlite3_stmt_busy(stmt) == stmt.state = "ROW"

\* the value of result column i of the current row
sqlite3_column_value(stmt, i) == [row |-> stmt.row, col |-> i, of |-> stmt.bindings]

(***************************************************************************)
(* Cursors (struct statement_cursor).                                       *)
(***************************************************************************)
CursorIds == {1, 2}

\* no cursor: allocated names what a failed xOpen left behind
ClosedCursor == [open |-> FALSE, allocated |-> {}]

NoCall == [op |-> "none", cur |-> 0, rc |-> "none", argv |-> <<>>, result |-> 0]

\* statement_vtab_open.  mem says which of its three allocations fails.
\* rowid and param_argc are left as sqlite3_malloc64 returned them.
statement_vtab_open(pVTab, mem) ==
    IF mem = "no cursor"
    THEN [cur |-> ClosedCursor, rc |-> "SQLITE_NOMEM"]
    ELSE IF mem = "no statement"
    THEN [cur |-> [open |-> FALSE, allocated |-> {"cursor", "param_argv"}],
          rc |-> "SQLITE_NOMEM"]
    ELSE [cur |-> [open       |-> TRUE,
                   stmt       |-> Prepared(pVTab),
                   rowid      |-> Uninit,
                   param_argc |-> Uninit,
                   param_argv |-> IF mem = "no param_argv" THEN NULL
                                  ELSE [k \in 1..pVTab.num_inputs |-> Uninit]],
          rc |-> "SQLITE_OK"]

\* sqlite3_free, sqlite3_finalize: a null pointer is left alone
sqlite3_free(heap, ptr) ==
    IF heap[ptr] = "none" THEN heap
    ELSE IF heap[ptr] = "live" THEN [heap EXCEPT ![ptr] = "freed"]
    ELSE [heap EXCEPT ![ptr] = "freed twice"]

sqlite3_finalize(heap) == sqlite3_free(heap, "stmt")

\* what an open cursor owns: itself, its statement and, unless the
\* allocation gave a null pointer, its param_argv
CursorHeap(cur) ==
    [cursor |-> "live", stmt |-> "live",
     param_argv |-> IF cur.param_argv = NULL THEN "none" ELSE "live"]

\* what is still allocated
Live(heap) == {ptr \in DOMAIN heap : heap[ptr] = "live"}

\* a faulty variant: param_argv is not freed
statement_vtab_close_keep_argv(cur) ==
    LET heap == sqlite3_free(sqlite3_finalize(CursorHeap(cur)), "cursor")
    IN  [cur |-> [open |-> FALSE, allocated |-> Live(heap)], rc |-> "SQLITE_OK",
         released |-> [heap |-> heap, from |-> cur.stmt.state]]

\* statement_vtab_close: released tells the state the statement was in and
\* what became of each pointer
statement_vtab_close(cur) ==
    LET heap == sqlite3_free(sqlite3_free(sqlite3_finalize(CursorHeap(cur)),
                                          "param_argv"), "cursor")
    IN [cur |-> [open |-> FALSE, allocated |-> Live(heap)], rc |-> "SQLITE_OK",
        released |-> [heap |-> heap, from |-> cur.stmt.state]]

\* a faulty variant: rowid is not incremented
statement_vtab_next_no_increment(cur, outcome) ==
    [cur |-> [cur EXCEPT !.stmt = sqlite3_step(@, outcome)],
     rc  |-> IF outcome \in {"SQLITE_ROW", "SQLITE_DONE"} THEN "SQLITE_OK" ELSE outcome]

\* statement_vtab_next with the outcome of sqlite3_step
statement_vtab_next(cur, outcome) ==
    IF outcome = "SQLITE_ROW"
    THEN [cur |-> [cur EXCEPT !.stmt = sqlite3_step(@, outcome), !.rowid = @ + 1],
          rc  |-> "SQLITE_OK"]
    ELSE [cur |-> [cur EXCEPT !.stmt = sqlite3_step(@, outcome)],
          rc  |-> IF outcome = "SQLITE_DONE" THEN "SQLITE_OK" ELSE outcome]

statement_vtab_rowid(cur) == cur.rowid

\* a faulty variant: the negation is missing
statement_vtab_eof_busy(cur) == sqlite3_stmt_busy(cur.stmt)

statement_vtab_eof(cur) == ~sqlite3_stmt_busy(cur.stmt)

\* statement_vtab_column: the value handed to sqlite3_result_value, or
\* NoValue when the function sets no result
statement_vtab_column(cur, pVTab, i) ==
    IF i < pVTab.num_outputs THEN sqlite3_column_value(cur.stmt, i)
    ELSE IF i - pVTab.num_outputs < cur.param_argc
    THEN cur.param_argv[i - pVTab.num_outputs + 1]
    ELSE NoValue

(***************************************************************************)
(* xFilter.                                                                 *)
(***************************************************************************)
\* sqlite3_bind_value(stmt, param_idx, value); fails says the host is out of memory
sqlite3_bind_value(stmt, param_idx, value, fails) ==
    IF param_idx \notin DOMAIN stmt.bindings THEN [stmt |-> stmt, rc |-> "SQLITE_RANGE"]
    ELSE IF fails THEN [stmt |-> stmt, rc |-> "SQLITE_NOMEM"]
    ELSE [stmt |-> [stmt EXCEPT !.bindings[param_idx] = value], rc |-> "SQLITE_OK"]

\* the bind loop of xFilter from argument i (0 based) on; bind_fail is the
\* 1 based position of the sqlite3_bind_value call that fails, 0 for none
RECURSIVE BindLoop(_, _, _, _, _)
BindLoop(r, idxStr, argv, i, bind_fail) ==
    IF i >= Len(argv) \/ r.rc # "SQLITE_OK" THEN r
    ELSE BindLoop(sqlite3_bind_value(r.stmt,
                      IF idxStr # NULL THEN decode_param_idx(i, idxStr) ELSE i + 1,
                      argv[i + 1], bind_fail = i + 1),
                  idxStr, argv, i + 1, bind_fail)

\* memcpy(param_argv, argv, sizeof(*param_argv)*argc) into a buffer of
\* num_inputs entries: the entries that fit
CopyArgs(param_argv, argv) ==
    [k \in DOMAIN param_argv |-> IF k <= Len(argv) THEN argv[k] ELSE param_argv[k]]

\* a faulty variant: a call without arguments leaves param_argc alone
RetainArgs_SkipEmpty(cur, pVTab, argv, env) ==
    IF ~(pVTab.num_inputs >= Len(argv)) /\ env.build = "assert"
    THEN [cur |-> cur, rc |-> "abort", spill |-> <<>>]
    ELSE IF Len(argv) = 0
    THEN [cur |-> cur, rc |-> "SQLITE_OK", spill |-> <<>>]
    ELSE IF cur.param_argv = NULL
    THEN [cur |-> [cur EXCEPT !.param_argc = Len(argv)], rc |-> "segfault", spill |-> <<>>]
    ELSE [cur |-> [cur EXCEPT !.param_argc = Len(argv), !.param_argv = CopyArgs(@, argv)],
          rc |-> "SQLITE_OK",
          spill |-> SubSeq(argv, Min(Len(argv), pVTab.num_inputs) + 1, Len(argv))]

\* xFilter after sqlite3_step returned SQLITE_ROW or SQLITE_DONE: the
\* assert() and the copy of the arguments
RetainArgs(cur, pVTab, argv, env) ==
    IF ~(pVTab.num_inputs >= Len(argv)) /\ env.build = "assert"
    THEN [cur |-> cur, rc |-> "abort", spill |-> <<>>]
    ELSE IF Len(argv) = 0
    THEN [cur |-> [cur EXCEPT !.param_argc = 0], rc |-> "SQLITE_OK", spill |-> <<>>]
    ELSE IF cur.param_argv = NULL
    THEN [cur |-> [cur EXCEPT !.param_argc = Len(argv)], rc |-> "segfault", spill |-> <<>>]
    ELSE [cur |-> [cur EXCEPT !.param_argc = Len(argv), !.param_argv = CopyArgs(@, argv)],
          rc |-> "SQLITE_OK",
          spill |-> SubSeq(argv, Min(Len(argv), pVTab.num_inputs) + 1, Len(argv))]

\* xFilter after its bind loop, which left bound = [stmt, rc]
StepAndRetain(cur, bound, pVTab, argv, env) ==
    IF bound.rc # "SQLITE_OK"
    THEN [cur |-> [cur EXCEPT !.stmt = bound.stmt], rc |-> bound.rc, spill |-> <<>>]
    ELSE IF env.step \notin {"SQLITE_ROW", "SQLITE_DONE"}
    THEN [cur |-> [cur EXCEPT !.stmt = sqlite3_step(bound.stmt, env.step)],
          rc |-> env.step, spill |-> <<>>]
    ELSE RetainArgs([cur EXCEPT !.stmt = sqlite3_step(bound.stmt, env.step)], pVTab, argv, env)

\* statement_vtab_filter.  env: bind_fail and the outcome of sqlite3_step as
\* above, and build ("assert" or "NDEBUG").  The result is [cur, rc, spill]:
\* rc "abort" when assert() fails, "segfault" when memcpy writes through a
\* null param_argv; spill holds the arguments memcpy wrote past the end of
\* param_argv.
statement_vtab_filter(cur, pVTab, idxStr, argv, env) ==
    StepAndRetain([cur EXCEPT !.rowid = 1],
                  BindLoop([stmt |-> sqlite3_clear_bindings(sqlite3_reset(cur.stmt)),
                            rc |-> "SQLITE_OK"],
                           idxStr, argv, 0, env.bind_fail),
                  pVTab, argv, env)

(***************************************************************************)
(* xBestIndex as the host calls it, on a fresh sqlite3_index_info.  Of two  *)
(* calls in a row only the second leaves a trace, so the host is modelled   *)
(* as doing something else between two calls.                               *)
(***************************************************************************)
xBestIndex(aConstraint, alloc_ok) ==
    /\ ~aborted
    /\ last.op # "xBestIndex"
    /\ \E r \in {statement_vtab_best_index(vtab, IndexInfo(aConstraint), alloc_ok)} :
        /\ index_info' = r.info
        /\ vtab' = [vtab EXCEPT !.zErrMsg = r.zErrMsg]
        /\ last' = [NoCall EXCEPT !.op = "xBestIndex", !.rc = r.info.rc]
    /\ UNCHANGED <<cursors, aborted, param_map, encoded, create, probe>>

(***************************************************************************)
(* The cursor callbacks as the host calls them.  The host passes xFilter    *)
(* the idxStr of the plan and one argument per argvIndex the plan assigned; *)
(* it calls xNext, xColumn and xRowid only while xEof reports a row.        *)
(***************************************************************************)
OpenOutcomes == {"ok", "no cursor", "no param_argv", "no statement"}
StepOutcomes == {"SQLITE_ROW", "SQLITE_DONE", "SQLITE_ERROR"}
Builds == {"assert", "NDEBUG"}

\* argc of the xFilter call a plan leads to
HostArgc(info) ==
    Cardinality({i \in 1..Len(info.aConstraintUsage) : info.aConstraintUsage[i].argvIndex > 0})

\* the host refuses a plan whose argvIndex values are not 1..argc, each once
ArgvIndexValid(info) ==
    /\ {info.aConstraintUsage[i].argvIndex : i \in 1..Len(info.aConstraintUsage)} \ {0}
          = 1..HostArgc(info)

xOpen(c, mem) ==
    /\ ~aborted
    /\ ~cursors[c].open /\ cursors[c].allocated = {}
    /\ \E r \in {statement_vtab_open(vtab, mem)} :
        /\ cursors' = [cursors EXCEPT ![c] = r.cur]
        /\ last' = [NoCall EXCEPT !.op = "xOpen", !.cur = c, !.rc = r.rc]
    /\ UNCHANGED <<vtab, index_info, aborted, param_map, encoded, create, probe>>

xClose(c) ==
    /\ ~aborted
    /\ cursors[c].open
    /\ \E r \in {statement_vtab_close(cursors[c])} :
        /\ cursors' = [cursors EXCEPT ![c] = r.cur]
        /\ last' = [NoCall EXCEPT !.op = "xClose", !.cur = c, !.rc = r.rc,
                                  !.result = r.released]
    /\ UNCHANGED <<vtab, index_info, aborted, param_map, encoded, create, probe>>

\* spill_to is the cursor whose param_argv lies behind that of c on the
\* heap; c itself when what lies behind is unused memory
xFilter(c, argv, env, spill_to) ==
    /\ ~aborted
    /\ cursors[c].open
    /\ index_info.rc = "SQLITE_OK" /\ ArgvIndexValid(index_info)
    /\ Len(argv) = HostArgc(index_info)
    /\ \E r \in {statement_vtab_filter(cursors[c], vtab, index_info.idxStr, argv, env)} :
       LET hit == /\ spill_to # c /\ r.spill # <<>>
                  /\ cursors[spill_to].open /\ cursors[spill_to].param_argv # NULL
       IN
        /\ cursors' = [d \in CursorIds |->
                          IF d = c THEN r.cur
                          ELSE IF d = spill_to /\ hit
                          THEN [cursors[d] EXCEPT !.param_argv = CopyArgs(@, r.spill)]
                          ELSE cursors[d]]
        /\ aborted' = (r.rc \in {"abort", "segfault"})
        /\ last' = [NoCall EXCEPT !.op = "xFilter", !.cur = c, !.rc = r.rc, !.argv = argv,
                                  !.result = IF r.rc \in {"SQLITE_NOMEM", "SQLITE_RANGE"}
                                             THEN "not stepped" ELSE env.step]
    /\ UNCHANGED <<vtab, index_info, param_map, encoded, create, probe>>

xNext(c, outcome) ==
    /\ ~aborted
    /\ cursors[c].open
    /\ sqlite3_stmt_busy(cursors[c].stmt)
    /\ outcome = "SQLITE_ROW" => cursors[c].stmt.row < MaxRows
    /\ \E r \in {statement_vtab_next(cursors[c], outcome)} :
        /\ cursors' = [cursors EXCEPT ![c] = r.cur]
        /\ last' = [NoCall EXCEPT !.op = "xNext", !.cur = c, !.rc = r.rc, !.result = outcome]
    /\ UNCHANGED <<vtab, index_info, aborted, param_map, encoded, create, probe>>

\* xEof, xColumn and xRowid change nothing: what they return is
\* statement_vtab_eof, statement_vtab_column and statement_vtab_rowid
xEof(c) ==
    /\ ~aborted
    /\ cursors[c].open
    /\ statement_vtab_eof(cursors[c]) \in BOOLEAN
    /\ UNCHANGED vars

xColumn(c, i) ==
    /\ ~aborted
    /\ cursors[c].open
    /\ sqlite3_stmt_busy(cursors[c].stmt)
    /\ LET value == statement_vtab_column(cursors[c], vtab, i) IN value = value
    /\ UNCHANGED vars

xRowid(c) ==
    /\ ~aborted
    /\ cursors[c].open
    /\ sqlite3_stmt_busy(cursors[c].stmt)
    /\ statement_vtab_rowid(cursors[c]) \in Int
    /\ UNCHANGED vars

(***************************************************************************)
(* The codec driven directly: encode any representable index into a slot.   *)
(***************************************************************************)
IntMax == (2 ^ (IntBits - 2)) + ((2 ^ (IntBits - 2)) - 1)

CodecValues ==
    {0, 1, GroupMask, GroupMask + 1, 2 ^ (2 * GroupBits) - 1, 2 ^ (2 * GroupBits),
     2 ^ (IntBits - 2) - 1, 2 ^ (IntBits - 2), IntMax - 1, IntMax}

Slots == 0..(MaxSlots - 1)

Encode(i, param_idx) ==
    /\ param_map' = encode_param_idx(i, param_map, param_idx)
    /\ encoded' = [encoded EXCEPT ![i] = param_idx]
    /\ last' = [NoCall EXCEPT !.op = "encode_param_idx", !.result = i]
    /\ UNCHANGED <<vtab, index_info, cursors, aborted, create, probe>>

(***************************************************************************)
(* build_create_statement.  A compiled statement is described by its result *)
(* columns ([name, type], as sqlite3_column_name and                        *)
(* sqlite3_column_decltype return them) and by the names of its bind        *)
(* parameters (NULL for an unnamed one).  A C string is the sequence of its *)
(* characters, a declared type the sequence of its words; a null pointer is *)
(* NULL, and no name is the empty string.  The text built is a sequence of  *)
(* tokens: the head, a blank, then per column its definition and a comma.   *)
(***************************************************************************)
\* a piece of the text that is not a column definition
Punct(c) == [punct |-> c]

SchemaHead == <<Punct("CREATE TABLE x("), Punct(" ")>>

\* sqlite3_str_appendf(sql, "%Q %s,", name, type): one column definition
ColumnDef(name, decl) == <<[name |-> name, decl |-> decl], Punct(",")>>

\* the column name of parameter i (1 based): name+1, or the position
ParamName(stmt, i) ==
    IF stmt.params[i] # NULL THEN Tail(stmt.params[i]) ELSE <<ToString(i)>>

\* the first loop, from result column i (1 based) on; NULL once a name is missing
RECURSIVE AppendOutputs(_, _, _)
AppendOutputs(sql, stmt, i) ==
    IF i > Len(stmt.columns) THEN sql
    ELSE IF stmt.columns[i].name = NULL THEN NULL
    ELSE AppendOutputs(sql \o ColumnDef(stmt.columns[i].name, stmt.columns[i].type), stmt, i + 1)

\* the second loop, from parameter i (1 based) on
RECURSIVE AppendParams(_, _, _)
AppendParams(sql, stmt, i) ==
    IF i > Len(stmt.params) THEN sql
    ELSE AppendParams(sql \o ColumnDef(ParamName(stmt, i), <<"hidden">>), stmt, i + 1)

\* the last character becomes ')' and the text is handed over
CloseSchema(sql, oom) ==
    IF sql = NULL \/ oom THEN NULL ELSE [sql EXCEPT ![Len(sql)] = Punct(")")]

\* build_create_statement; oom says the sqlite3_str ran out of memory
build_create_statement(stmt, oom) ==
    CloseSchema(IF AppendOutputs(SchemaHead, stmt, 1) = NULL THEN NULL
                ELSE AppendParams(AppendOutputs(SchemaHead, stmt, 1), stmt, 1),
                oom)

\* the columns sqlite3_declare_vtab reads out of the text, in order: the
\* definitions between the head and the closing parenthesis
DeclaredColumns(sql) ==
    SelectSeq(SubSeq(sql, 2, Len(sql) - 1), LAMBDA t : "name" \in DOMAIN t)

\* the host takes a column for hidden when its type holds the word hidden
IsHidden(col) == \E k \in 1..Len(col.decl) : col.decl[k] = "hidden"

\* sqlite3_declare_vtab accepts a text that ends the column list properly
\* and declares at least one column, no two of the same name
Declarable(sql) ==
    /\ sql[Len(sql)] = Punct(")")
    /\ DeclaredColumns(sql) # <<>>
    /\ \A i, j \in 1..Len(DeclaredColumns(sql)) :
          DeclaredColumns(sql)[i].name = DeclaredColumns(sql)[j].name => i = j

(***************************************************************************)
(* The statements handed to xCreate.                                        *)
(***************************************************************************)
\* declared types of result columns: none, an ordinary one, and one that
\* holds the word hidden (a column of a table declared as "a hidden")
DeclTypes == {NULL, <<"INT">>, <<"hidden">>}

\* result columns as sqlite3_column_name and sqlite3_column_decltype give them
ResultColumns == [name : {<<"a">>, <<"x">>}, type : DeclTypes]

\* what sqlite3_bind_parameter_name gives: NULL for a plain ?, else the name
\* with its marker
ParamNames == {NULL, <<":", "x">>, <<"@", "y">>}

\* no two parameters of a statement have the same name
ParamLists ==
    {ps \in UNION {[1..n -> ParamNames] : n \in 0..MaxInputs} :
        \A i, j \in 1..Len(ps) : (ps[i] = ps[j] /\ ps[i] # NULL) => i = j}

Statements ==
    [columns : UNION {[1..n -> ResultColumns] : n \in 0..MaxColumns},
     params : ParamLists, readonly : BOOLEAN]

\* build_create_statement applied to a statement
BuildCreateStatement(stmt, oom) ==
    /\ probe' = [op |-> "build_create_statement", stmt |-> stmt,
                 sql |-> build_create_statement(stmt, oom)]
    /\ last' = [NoCall EXCEPT !.op = "build_create_statement"]
    /\ UNCHANGED <<vtab, index_info, cursors, aborted, param_map, encoded, create>>

\* the statements xCreate is run on: every number of columns and of
\* parameters, a name clash between a column and a parameter, a hidden type
CreateStatements ==
    {st \in Statements :
        /\ \A i \in 1..Len(st.columns) : st.columns[i].type # <<"INT">>
        /\ \A i \in 1..Len(st.params) : st.params[i] \in {NULL, <<":", "x">>}
        /\ Len(st.params) <= 1
        /\ Len(st.columns) <= MaxOutputs}

(***************************************************************************)
(* xCreate and xConnect (statement_vtab_connect only calls                  *)
(* statement_vtab_create).  create holds the call: its arguments, where it  *)
(* stands (pc), what it has allocated (heap: per pointer "none" for a null  *)
(* pointer, "live", "freed", "freed twice"), what it handed to the host     *)
(* (ppVtab, pzErr, ret), and the connection: how often this thread holds    *)
(* the mutex of the connection and the error message of the connection.     *)
(***************************************************************************)
\* a faulty variant: the text is not freed
statement_vtab_destroy_leak(heap) == sqlite3_free(heap, "vtab")

statement_vtab_destroy(heap) == sqlite3_free(sqlite3_free(heap, "sql"), "vtab")

\* a faulty variant: the mutex is not taken
sqlite3_mutex_enter_noop(cr) == cr

sqlite3_mutex_enter(cr) == [cr EXCEPT !.mutex = @ + 1, !.enters = @ + 1]

sqlite3_mutex_leave(cr) == [cr EXCEPT !.mutex = @ - 1, !.leaves = @ + 1]

\* sqlite3_mprintf: the message, or NULL when out of memory
sqlite3_mprintf(msg, msg_ok) == IF msg_ok THEN msg ELSE NULL

\* the arguments of a call: argv[0..2] are the module, database and table
\* names, argv[3] on are the arguments of the table definition
CreateArgcs == {3, 4, 5}

CreateTexts ==
    {<<>>, <<"(", ")">>, <<"s">>, <<"s", "s", "s">>, <<"(", "s">>, <<"s", ")">>,
     <<"(", "s", ")">>, <<"(", " ", ")">>, <<"(", "s", "s", ")">>}

NewCreate(argc, text) ==
    [pc |-> "args", argc |-> argc, text |-> text,
     heap |-> [ptr \in {"vtab", "sql", "stmt", "create"} |-> "none"],
     sql |-> NULL, stmt |-> NULL, schema |-> NULL,
     num_inputs |-> 0, num_outputs |-> 0,
     ppVtab |-> NULL, pzErr |-> NULL, ret |-> "none",
     mutex |-> 0, enters |-> 0, leaves |-> 0,
     errmsg |-> <<"not an error">>, failed |-> NULL]

\* lines 65-74: the checks of the arguments
CheckArgs(msg_ok) ==
    /\ create.pc = "args"
    /\ create' =
         IF create.argc < 4 \/ Len(create.text) < 3
         THEN [create EXCEPT !.pc = "done",
                 !.pzErr = sqlite3_mprintf(<<"no statement provided">>, msg_ok),
                 !.ret = IF msg_ok THEN "SQLITE_MISUSE" ELSE "SQLITE_NOMEM"]
         ELSE IF create.text[1] # "(" \/ create.text[Len(create.text)] # ")"
         THEN [create EXCEPT !.pc = "done",
                 !.pzErr = sqlite3_mprintf(<<"statement must be parenthesized">>, msg_ok),
                 !.ret = IF msg_ok THEN "SQLITE_MISUSE" ELSE "SQLITE_NOMEM"]
         ELSE [create EXCEPT !.pc = "alloc"]
    /\ last' = [NoCall EXCEPT !.op = "xCreate", !.result = "args"]
    /\ UNCHANGED <<vtab, index_info, cursors, aborted, param_map, encoded, probe>>

\* lines 81-92: the table structure and the copy of the text
AllocTable(vtab_ok, sql_ok) ==
    /\ create.pc = "alloc"
    /\ create' =
         IF ~vtab_ok
         THEN [create EXCEPT !.pc = "done", !.ret = "SQLITE_NOMEM"]
         ELSE IF ~sql_ok
         THEN [create EXCEPT !.pc = "error", !.heap["vtab"] = "live", !.ppVtab = <<"vtab">>,
                 !.ret = "SQLITE_NOMEM"]
         ELSE [create EXCEPT !.pc = "enter prepare", !.heap["vtab"] = "live",
                 !.heap["sql"] = "live", !.ppVtab = <<"vtab">>,
                 !.sql = SubSeq(create.text, 2, Len(create.text) - 1)]
    /\ last' = [NoCall EXCEPT !.op = "xCreate", !.result = "alloc"]
    /\ UNCHANGED <<vtab, index_info, cursors, aborted, param_map, encoded, probe>>

\* lines 94 and 112: sqlite3_mutex_enter
EnterMutex ==
    /\ create.pc \in {"enter prepare", "enter declare"}
    /\ create' = [sqlite3_mutex_enter(create) EXCEPT
                    !.pc = IF create.pc = "enter prepare" THEN "prepare" ELSE "declare"]
    /\ last' = [NoCall EXCEPT !.op = "xCreate", !.result = "enter"]
    /\ UNCHANGED <<vtab, index_info, cursors, aborted, param_map, encoded, probe>>

\* line 95: sqlite3_prepare_v2 of the stored text.  It fails, or compiles
\* the text to a statement; a blank text compiles to no statement at all.
Prepare(ok, stmt) ==
    /\ create.pc = "prepare"
    /\ create' =
         IF ~ok
         THEN [create EXCEPT !.pc = "sqlite_error", !.ret = "SQLITE_ERROR",
                 !.errmsg = <<"prepare failed">>, !.failed = <<"prepare failed">>]
         ELSE IF create.sql = <<" ">>
         THEN [create EXCEPT !.pc = "leave prepare",
                 !.stmt = [columns |-> <<>>, params |-> <<>>, readonly |-> TRUE],
                 !.errmsg = <<"not an error">>]
         ELSE [create EXCEPT !.pc = "leave prepare", !.heap["stmt"] = "live", !.stmt = stmt,
                 !.errmsg = <<"not an error">>]
    /\ last' = [NoCall EXCEPT !.op = "xCreate", !.result = "prepare"]
    /\ UNCHANGED <<vtab, index_info, cursors, aborted, param_map, encoded, probe>>

\* lines 97 and 115: sqlite3_mutex_leave after a call that succeeded
LeaveMutex ==
    /\ create.pc \in {"leave prepare", "leave declare"}
    /\ create' = [sqlite3_mutex_leave(create) EXCEPT
                    !.pc = IF create.pc = "leave prepare" THEN "readonly" ELSE "success"]
    /\ last' = [NoCall EXCEPT !.op = "xCreate", !.result = "leave"]
    /\ UNCHANGED <<vtab, index_info, cursors, aborted, param_map, encoded, probe>>

\* lines 98-106: the read-only check and the two counts
CheckReadonly(msg_ok) ==
    /\ create.pc = "readonly"
    /\ create' =
         IF ~create.stmt.readonly
         THEN [create EXCEPT !.pc = "error",
                 !.pzErr = sqlite3_mprintf(<<"Statement must be read only.">>, msg_ok),
                 !.ret = IF msg_ok THEN "SQLITE_ERROR" ELSE "SQLITE_NOMEM"]
         ELSE [create EXCEPT !.pc = "build",
                 !.num_inputs = Len(create.stmt.params),
                 !.num_outputs = Len(create.stmt.columns)]
    /\ last' = [NoCall EXCEPT !.op = "xCreate", !.result = "readonly"]
    /\ UNCHANGED <<vtab, index_info, cursors, aborted, param_map, encoded, probe>>

\* lines 108-111: build_create_statement
BuildSchema(oom) ==
    /\ create.pc = "build"
    /\ \E text \in {build_create_statement(create.stmt, oom)} :
         create' =
           IF text = NULL
           THEN [create EXCEPT !.pc = "error", !.ret = "SQLITE_NOMEM"]
           ELSE [create EXCEPT !.pc = "enter declare", !.heap["create"] = "live",
                   !.schema = text]
    /\ last' = [NoCall EXCEPT !.op = "xCreate", !.result = "build"]
    /\ UNCHANGED <<vtab, index_info, cursors, aborted, param_map, encoded, probe>>

\* line 113: sqlite3_declare_vtab; it fails on a text it cannot declare,
\* and may fail for want of memory
Declare(ok) ==
    /\ create.pc = "declare"
    /\ create' =
         IF ~ok \/ ~Declarable(create.schema)
         THEN [create EXCEPT !.pc = "sqlite_error", !.ret = "SQLITE_ERROR",
                 !.errmsg = <<"declare failed">>, !.failed = <<"declare failed">>]
         ELSE [create EXCEPT !.pc = "leave declare", !.errmsg = <<"not an error">>]
    /\ last' = [NoCall EXCEPT !.op = "xCreate", !.result = "declare"]
    /\ UNCHANGED <<vtab, index_info, cursors, aborted, param_map, encoded, probe>>

\* lines 117-119: the success path
Finish ==
    /\ create.pc = "success"
    /\ create' = [create EXCEPT !.pc = "done",
                    !.heap = sqlite3_finalize(sqlite3_free(create.heap, "create")),
                    !.ret = "SQLITE_OK"]
    /\ last' = [NoCall EXCEPT !.op = "xCreate", !.result = "finish"]
    /\ UNCHANGED <<vtab, index_info, cursors, aborted, param_map, encoded, probe>>

\* lines 122-123: the message of the connection is copied for the host
ReadErrmsg(msg_ok) ==
    /\ create.pc = "sqlite_error"
    /\ create' = [create EXCEPT !.pc = "leave error",
                    !.pzErr = sqlite3_mprintf(create.errmsg, msg_ok),
                    !.ret = IF msg_ok THEN @ ELSE "SQLITE_NOMEM"]
    /\ last' = [NoCall EXCEPT !.op = "xCreate", !.result = "errmsg"]
    /\ UNCHANGED <<vtab, index_info, cursors, aborted, param_map, encoded, probe>>

\* line 124: sqlite3_mutex_leave on the error path
LeaveMutexOnError ==
    /\ create.pc = "leave error"
    /\ create' = [sqlite3_mutex_leave(create) EXCEPT !.pc = "error"]
    /\ last' = [NoCall EXCEPT !.op = "xCreate", !.result = "leave"]
    /\ UNCHANGED <<vtab, index_info, cursors, aborted, param_map, encoded, probe>>

\* lines 126-130: the error label
Cleanup ==
    /\ create.pc = "error"
    /\ create' = [create EXCEPT !.pc = "done",
                    !.heap = statement_vtab_destroy(
                                 sqlite3_finalize(sqlite3_free(create.heap, "create"))),
                    !.ppVtab = NULL]
    /\ last' = [NoCall EXCEPT !.op = "xCreate", !.result = "cleanup"]
    /\ UNCHANGED <<vtab, index_info, cursors, aborted, param_map, encoded, probe>>

\* another thread calls into the connection and fails: it needs the mutex
\* of the connection, and leaves its own message behind
OtherThread ==
    /\ create.pc \notin {"none", "done"}
    /\ create.mutex = 0
    /\ create.errmsg # <<"another thread's error">>
    /\ create' = [create EXCEPT !.errmsg = <<"another thread's error">>]
    /\ last' = [NoCall EXCEPT !.op = "other thread"]
    /\ UNCHANGED <<vtab, index_info, cursors, aborted, param_map, encoded, probe>>

(***************************************************************************)
(* Specifications.                                                          *)
(***************************************************************************)
\* no xCreate call under way, no function applied
NoCreate == [pc |-> "none"]

NoProbe == [op |-> "none"]

InitCommon ==
    /\ index_info = NoPlan
    /\ cursors = [c \in CursorIds |-> ClosedCursor]
    /\ aborted = FALSE
    /\ last = NoCall
    /\ param_map = [k \in 1..(MaxSlots * param_idx_size) |-> UninitChar]
    /\ encoded = [s \in Slots |-> UninitChar]
    /\ create = NoCreate
    /\ probe = NoProbe

\* the planner alone: one xBestIndex call on a fresh sqlite3_index_info, over
\* every table shape and every constraint list
InitPlan == InitCommon /\ vtab \in SmallTables \cup WideTables

NextPlan ==
    /\ index_info.rc = "none"
    /\ \E aConstraint \in ListsOver(EqConstraints(vtab) \cup OtherConstraints(vtab)) \cup WideLists(vtab),
          alloc_ok \in BOOLEAN :
            xBestIndex(aConstraint, alloc_ok)

SpecPlan == InitPlan /\ [][NextPlan]_vars

\* the codec alone
InitCodec == InitCommon /\ vtab \in [num_inputs : {1}, num_outputs : {1}, zErrMsg : {NULL}]

NextCodec == \E i \in Slots, param_idx \in CodecValues : Encode(i, param_idx)

SpecCodec == InitCodec /\ [][NextCodec]_vars

\* the size check alone, on counts around the smallest, around the largest
\* the check lets through and up to the largest int
ConstraintCounts ==
    (1..(1 + 2 * SizeSpread))
        \cup ((SizeMaxDiv - SizeSpread)..(SizeMaxDiv + SizeSpread))
        \cup {IntMax - d : d \in 0..SizeSpread}

CheckSize(out_constraints, alloc_ok, zErrMsg) ==
    /\ probe' = [op |-> "AllocPayload", out_constraints |-> out_constraints,
                 alloc_ok |-> alloc_ok,
                 r |-> AllocPayload([zErrMsg |-> zErrMsg], out_constraints, alloc_ok)]
    /\ last' = [NoCall EXCEPT !.op = "xBestIndex"]
    /\ UNCHANGED <<vtab, index_info, cursors, aborted, param_map, encoded, create>>

InitSize == InitCommon /\ vtab \in [num_inputs : {1}, num_outputs : {1}, zErrMsg : {NULL}]

NextSize ==
    /\ probe = NoProbe
    /\ \E out_constraints \in ConstraintCounts, alloc_ok \in BOOLEAN,
          zErrMsg \in {NULL, <<"an earlier message">>} :
            CheckSize(out_constraints, alloc_ok, zErrMsg)

SpecSize == InitSize /\ [][NextSize]_vars

\* build_create_statement alone, on every statement
InitSchema == InitCommon /\ vtab \in [num_inputs : {1}, num_outputs : {1}, zErrMsg : {NULL}]

NextSchema ==
    /\ probe = NoProbe
    /\ \E stmt \in Statements, oom \in BOOLEAN : BuildCreateStatement(stmt, oom)

SpecSchema == InitSchema /\ [][NextSchema]_vars

\* xCreate on every argument list, with every failure, beside another thread
InitCreate ==
    /\ InitCommon
    /\ vtab \in [num_inputs : {1}, num_outputs : {1}, zErrMsg : {NULL}]

NextCreate ==
    \/ /\ create.pc = "none"
       /\ \E argc \in CreateArgcs, text \in CreateTexts : create' = NewCreate(argc, text)
       /\ last' = [NoCall EXCEPT !.op = "xCreate", !.result = "called"]
       /\ UNCHANGED <<vtab, index_info, cursors, aborted, param_map, encoded, probe>>
    \/ \E msg_ok \in BOOLEAN : CheckArgs(msg_ok)
    \/ \E vtab_ok \in BOOLEAN, sql_ok \in BOOLEAN : AllocTable(vtab_ok, sql_ok)
    \/ EnterMutex
    \/ \E ok \in BOOLEAN, stmt \in CreateStatements : Prepare(ok, stmt)
    \/ LeaveMutex
    \/ \E msg_ok \in BOOLEAN : CheckReadonly(msg_ok)
    \/ \E oom \in BOOLEAN : BuildSchema(oom)
    \/ \E ok \in BOOLEAN : Declare(ok)
    \/ Finish
    \/ \E msg_ok \in BOOLEAN : ReadErrmsg(msg_ok)
    \/ LeaveMutexOnError
    \/ Cleanup
    \/ OtherThread

SpecCreate == InitCreate /\ [][NextCreate]_vars

\* the lists proposed while cursors run: usable equalities on hidden columns
\* in every order, a list with ignored constraints, a list of ignored
\* constraints only and a list that is rejected
CursorLists(vt) ==
    ListsOver(EqConstraints(vt))
        \cup {<<Constraint(0, "LT", FALSE), Constraint(vt.num_outputs, "EQ", TRUE),
                Constraint(vt.num_outputs, "LIMIT", TRUE)>>,
              <<Constraint(0, "LT", FALSE), Constraint(vt.num_outputs, "LIMIT", TRUE),
                Constraint(vt.num_outputs, "OFFSET", TRUE)>>,
              <<Constraint(vt.num_outputs, "LT", TRUE)>>}

\* the build only matters to a call whose assert() fails
Envs(argc, bind_fails, steps) ==
    [bind_fail : bind_fails, step : steps,
     build : IF argc > vtab.num_inputs THEN Builds ELSE {"assert"}]

Columns == 0..(vtab.num_outputs + vtab.num_inputs - 1)

\* one cursor over a table of every small shape, every failure included
Init == InitCommon /\ vtab \in SmallTables

Next ==
    \/ \E aConstraint \in CursorLists(vtab), alloc_ok \in BOOLEAN :
            xBestIndex(aConstraint, alloc_ok)
    \/ \E mem \in OpenOutcomes : xOpen(1, mem)
    \/ \E argv \in [1..HostArgc(index_info) -> Values],
          env \in Envs(HostArgc(index_info), 0..HostArgc(index_info), StepOutcomes) :
            xFilter(1, argv, env, 1)
    \/ \E outcome \in StepOutcomes : xNext(1, outcome)
    \/ xEof(1)
    \/ \E i \in Columns : xColumn(1, i)
    \/ xRowid(1)
    \/ xClose(1)

Spec == Init /\ [][Next]_vars

\* two cursors over the same one parameter table, filtered with one or two
\* equalities on its hidden column; no allocation and no bind fails, and
\* the heap may lay the param_argv of the cursors out back to back
InitIso == InitCommon /\ vtab \in [num_inputs : {1}, num_outputs : {1}, zErrMsg : {NULL}]

NextIso ==
    \/ \E aConstraint \in ListsOver(EqConstraints(vtab)) \ {<<>>} :
            xBestIndex(aConstraint, TRUE)
    \/ \E c \in CursorIds : xOpen(c, "ok")
    \/ \E c \in CursorIds, argv \in [1..HostArgc(index_info) -> Values],
          env \in Envs(HostArgc(index_info), {0}, {"SQLITE_ROW", "SQLITE_DONE"}) :
            \E spill_to \in CursorIds : xFilter(c, argv, env, spill_to)
    \/ \E c \in CursorIds, outcome \in {"SQLITE_ROW", "SQLITE_DONE"} : xNext(c, outcome)
    \/ \E c \in CursorIds : xEof(c)
    \/ \E c \in CursorIds, i \in Columns : xColumn(c, i)
    \/ \E c \in CursorIds : xRowid(c)
    \/ \E c \in CursorIds : xClose(c)

SpecIso == InitIso /\ [][NextIso]_vars

\* two cursors over the same one parameter table, scanned with no or one
\* equality on its hidden column, every failure included
InitClose == InitCommon /\ vtab \in [num_inputs : {1}, num_outputs : {1}, zErrMsg : {NULL}]

NextClose ==
    \/ \E aConstraint \in {<<>>, <<Constraint(vtab.num_outputs, "EQ", TRUE)>>} :
            xBestIndex(aConstraint, TRUE)
    \/ \E c \in CursorIds, mem \in OpenOutcomes : xOpen(c, mem)
    \/ \E c \in CursorIds, argv \in [1..HostArgc(index_info) -> Values],
          env \in Envs(HostArgc(index_info), 0..HostArgc(index_info), StepOutcomes) :
            xFilter(c, argv, env, c)
    \/ \E c \in CursorIds, outcome \in StepOutcomes : xNext(c, outcome)
    \/ \E c \in CursorIds : xEof(c)
    \/ \E c \in CursorIds, i \in Columns : xColumn(c, i)
    \/ \E c \in CursorIds : xRowid(c)
    \/ \E c \in CursorIds : xClose(c)

SpecClose == InitClose /\ [][NextClose]_vars

(***************************************************************************)
(* What a constraint list asks for, read off the list itself.               *)
(***************************************************************************)
\* the constraint targets a hidden column and is neither LIMIT nor OFFSET
OnHidden(c) == c.iColumn >= vtab.num_outputs /\ c.op \notin {"LIMIT", "OFFSET"}

\* such a constraint that cannot be bound: not usable, or not an equality
Offending(c) == OnHidden(c) /\ (~c.usable \/ c.op # "EQ")

\* positions of the constraints a successful plan accepts
Accepted(info) == {i \in 1..Len(info.aConstraint) : OnHidden(info.aConstraint[i])}

ColIndex(info, i) == info.aConstraint[i].iColumn - vtab.num_outputs

AcceptedCols(info) == {ColIndex(info, i) : i \in Accepted(info)}

ColMax(info) ==
    IF Accepted(info) = {} THEN 0
    ELSE (CHOOSE m \in AcceptedCols(info) : \A k \in AcceptedCols(info) : k <= m) + 1

\* the accepted hidden columns are 0..col_max-1, each constrained once
GapFree(info) ==
    /\ AcceptedCols(info) = 0..(ColMax(info) - 1)
    /\ Cardinality(Accepted(info)) = ColMax(info)

DirectPlan(info) ==
    /\ info.idxStr = NULL
    /\ \A i \in Accepted(info) : info.aConstraintUsage[i].argvIndex = ColIndex(info, i) + 1

MappedPlan(info) == info.idxStr # NULL

Planned == index_info.rc = "SQLITE_OK" /\ Accepted(index_info) # {}

(***************************************************************************)
(* What an xFilter call was asked to do, read off the plan and argv.        *)
(***************************************************************************)
\* positions of the accepted constraints on hidden column h
OnColumn(info, h) == {i \in Accepted(info) : ColIndex(info, i) = h}

\* the argument the host passes for constraint i
ArgOf(info, argv, i) == argv[info.aConstraintUsage[i].argvIndex]

\* of the accepted constraints on hidden column h, the last in argv order
LastOn(info, h) ==
    CHOOSE i \in OnColumn(info, h) :
        \A k \in OnColumn(info, h) :
            info.aConstraintUsage[k].argvIndex <= info.aConstraintUsage[i].argvIndex

\* what statement parameter p is asked to hold
Targeted(info, argv, p) ==
    IF OnColumn(info, p - 1) = {} THEN Unbound ELSE ArgOf(info, argv, LastOn(info, p - 1))

\* the last call was an xFilter that returned SQLITE_OK
Filtered == last.op = "xFilter" /\ last.rc = "SQLITE_OK"

(***************************************************************************)
(* C1: for every plan xBestIndex accepts, the xFilter call it leads to has  *)
(* argc <= num_inputs: the assertion holds, and the number of retained      *)
(* arguments (param_argc) never exceeds num_inputs.                         *)
(***************************************************************************)
C1_ArgcWithinNumInputs ==
    /\ last.op = "xFilter" => Len(last.argv) <= vtab.num_inputs
    /\ last.rc # "abort"
    /\ Filtered => cursors[last.cur].param_argc <= vtab.num_inputs

(***************************************************************************)
(* C2: after a successful xFilter, xColumn on hidden column h returns the   *)
(* argument supplied for the constraint on hidden column h when the plan    *)
(* has one, and sets no result when the plan has no constraint on h.        *)
(***************************************************************************)
C2_ColumnEchoesItsConstraint ==
    Filtered =>
        \A h \in 0..(vtab.num_inputs - 1) :
            /\ OnColumn(index_info, h) = {}
                  => statement_vtab_column(cursors[last.cur], vtab, vtab.num_outputs + h) = NoValue
            /\ Cardinality(OnColumn(index_info, h)) = 1
                  => statement_vtab_column(cursors[last.cur], vtab, vtab.num_outputs + h)
                        = ArgOf(index_info, last.argv, LastOn(index_info, h))

(***************************************************************************)
(* C3: after an xFilter whose bind loop ran to its end, statement parameter *)
(* c+1 holds the argument of the accepted constraint on hidden column c     *)
(* (of the last one in argv order, when there are several) and every other  *)
(* parameter is unbound, for direct and mapped plans alike; and a plan that *)
(* constrains hidden columns 0 and 2 is mapped and its payload decodes to   *)
(* the positions {1, 3}.                                                    *)
(***************************************************************************)
C3_BindsByColumn ==
    /\ (last.op = "xFilter" /\ last.result # "not stepped") =>
          \A p \in 1..vtab.num_inputs :
              cursors[last.cur].stmt.bindings[p] = Targeted(index_info, last.argv, p)
    /\ (index_info.rc = "SQLITE_OK" /\ AcceptedCols(index_info) = {0, 2}) =>
          /\ MappedPlan(index_info)
          /\ {decode_param_idx(k, index_info.idxStr) : k \in 0..(HostArgc(index_info) - 1)}
                = {1, 3}

\* hidden columns 2 and 0 constrained in that order and filtered with two
\* different values: parameter 3 holds the first, parameter 1 the second
C3_Witness_SparseReversed ==
    /\ Filtered
    /\ Len(index_info.aConstraint) = 2
    /\ ColIndex(index_info, 1) = 2 /\ ColIndex(index_info, 2) = 0
    /\ last.argv[1] # last.argv[2]
    /\ cursors[last.cur].stmt.bindings[3] = last.argv[1]
    /\ cursors[last.cur].stmt.bindings[2] = Unbound
    /\ cursors[last.cur].stmt.bindings[1] = last.argv[2]

(***************************************************************************)
(* C4 (as stated): whenever xBestIndex succeeds with a non-empty accepted   *)
(* set, the plan is direct exactly when the accepted hidden columns are     *)
(* 0..col_max-1 with one constraint each, and is mapped (has a payload) in  *)
(* every other case.                                                        *)
(***************************************************************************)
C4_DirectIffGapFree ==
    Planned =>
        /\ DirectPlan(index_info) <=> GapFree(index_info)
        /\ ~GapFree(index_info) => MappedPlan(index_info)

(***************************************************************************)
(* C4 (amended): whenever xBestIndex succeeds with a non-empty accepted     *)
(* set, the plan is direct exactly when the accepted hidden columns are     *)
(* 0..col_max-1 with one constraint each and col_max is at most 64; in      *)
(* every other case, more than 64 contiguous columns included, the plan is  *)
(* mapped.                                                                  *)
(***************************************************************************)
C4_DirectIffGapFreeWithinMask ==
    Planned =>
        /\ DirectPlan(index_info) <=> (GapFree(index_info) /\ ColMax(index_info) <= MaskBits)
        /\ ~(GapFree(index_info) /\ ColMax(index_info) <= MaskBits) => MappedPlan(index_info)

\* hidden columns 0 and 1 constrained in reverse order: a direct plan
C4_Witness_ReversedPair ==
    /\ Planned
    /\ Len(index_info.aConstraint) = 2
    /\ ColIndex(index_info, 1) = 1 /\ ColIndex(index_info, 2) = 0
    /\ index_info.aConstraintUsage[1].argvIndex = 2
    /\ index_info.aConstraintUsage[2].argvIndex = 1
    /\ index_info.idxStr = NULL

(***************************************************************************)
(* C5: xBestIndex returns SQLITE_CONSTRAINT if and only if some constraint  *)
(* on a hidden column, other than LIMIT/OFFSET, is unusable or is not an    *)
(* equality, wherever it stands in the list; constraints on output columns  *)
(* and LIMIT/OFFSET constraints never get an argvIndex.                     *)
(***************************************************************************)
C5_RejectIffOffending ==
    index_info.rc # "none" =>
        /\ index_info.rc = "SQLITE_CONSTRAINT"
              <=> \E i \in 1..Len(index_info.aConstraint) : Offending(index_info.aConstraint[i])
        /\ \A i \in 1..Len(index_info.aConstraint) :
              ~OnHidden(index_info.aConstraint[i])
                  => index_info.aConstraintUsage[i] = [argvIndex |-> 0, omit |-> 0]

\* rejected for an unusable equality that follows an accepted constraint
C5_Witness_LateUnusable ==
    /\ index_info.rc = "SQLITE_CONSTRAINT"
    /\ Len(index_info.aConstraint) = 2
    /\ index_info.aConstraintUsage[1].argvIndex > 0
    /\ index_info.aConstraint[2].op = "EQ" /\ ~index_info.aConstraint[2].usable

(***************************************************************************)
(* C6: every slot of the map decodes to the index last encoded into it:     *)
(* decode_param_idx(i, map) after encode_param_idx(i, map, v) is v, for     *)
(* every non-negative int v, and encoding another slot does not change it.  *)
(***************************************************************************)
C6_CodecRoundTrip ==
    \A s \in Slots : encoded[s] # UninitChar => decode_param_idx(s, param_map) = encoded[s]

\* INT_MAX sits in slot 0 and a different index was encoded into slot 1 after it
C6_Witness_IntMaxKept ==
    /\ encoded[0] = IntMax
    /\ encoded[1] = GroupMask + 1
    /\ last.op = "encode_param_idx" /\ last.result = 1

C9_FilterLeavesNoResidue ==
    Filtered =>
        /\ \A p \in 1..vtab.num_inputs :
              cursors[last.cur].stmt.bindings[p] = Targeted(index_info, last.argv, p)
        /\ cursors[last.cur].param_argc = Len(last.argv)
        /\ \A h \in 0..(vtab.num_inputs - 1) :
              statement_vtab_column(cursors[last.cur], vtab, vtab.num_outputs + h)
                  = IF h < Len(last.argv) THEN last.argv[h + 1] ELSE NoValue
        /\ cursors[last.cur].rowid = 1
        /\ cursors[last.cur].stmt.row = (IF last.result = "SQLITE_ROW" THEN 1 ELSE 0)
        /\ cursors[last.cur].stmt.state = (IF last.result = "SQLITE_ROW" THEN "ROW" ELSE "DONE")

\* a filter with no argument after one with arguments: the buffer still
\* holds an argument of the earlier call, and nothing shows it
C9_Witness_SecondFilter ==
    /\ Filtered
    /\ last.argv = <<>>
    /\ cursors[last.cur].param_argv # NULL
    /\ \E k \in DOMAIN cursors[last.cur].param_argv : cursors[last.cur].param_argv[k] \in Values
    /\ \A p \in 1..vtab.num_inputs : cursors[last.cur].stmt.bindings[p] = Unbound

(***************************************************************************)
(* C10: a call on one cursor changes nothing of any other cursor: its       *)
(* statement, its rowid and its retained arguments are as they were.        *)
(***************************************************************************)
C10_CursorsIsolated ==
    [][\A d \in CursorIds : d # last'.cur => cursors'[d] = cursors[d]]_vars

(***************************************************************************)
(* What a finished xCreate call was given.                                  *)
(***************************************************************************)
Created == create.pc = "done" /\ create.ret = "SQLITE_OK"

CreateFailed == create.pc = "done" /\ create.ret # "SQLITE_OK"

\* argv[3] is a statement text in parentheses
Parenthesized(text) == Len(text) >= 3 /\ text[1] = "(" /\ text[Len(text)] = ")"

(***************************************************************************)
(* C11: xCreate (and xConnect, which is the same function) succeeds only    *)
(* when the definition has exactly one argument (argc = 4) and that         *)
(* argument is a statement text in parentheses; with no argument or with    *)
(* more than one it fails and hands no table to the host.                   *)
(***************************************************************************)
C11_ExactlyOneArgument ==
    /\ Created => (create.argc = 4 /\ Parenthesized(create.text))
    /\ (create.pc = "done" /\ create.argc # 4)
          => (create.ret # "SQLITE_OK" /\ create.ppVtab = NULL)

(***************************************************************************)
(* C12: a finished xCreate that failed returned a result other than         *)
(* SQLITE_OK, left *ppVtab null, and everything it had allocated (the       *)
(* table structure, the stored text, the inspection statement, the schema   *)
(* text) is freed, nothing twice; it fails whenever the text is missing,    *)
(* shorter than "(s)" or not in parentheses, does not compile, is not read  *)
(* only, or its schema cannot be built or declared.  A finished xCreate     *)
(* that succeeded freed the inspection statement and the schema text and    *)
(* keeps the table structure with the text and the two counts.              *)
(***************************************************************************)
C12_CreateCleansUp ==
    /\ \A ptr \in DOMAIN NewCreate(4, <<>>).heap :
          create.pc # "none" => create.heap[ptr] # "freed twice"
    /\ create.pc = "done" => create.ret # "none"
    /\ CreateFailed =>
          /\ create.ppVtab = NULL
          /\ \A ptr \in DOMAIN create.heap : create.heap[ptr] \in {"none", "freed"}
    /\ Created =>
          /\ create.argc >= 4 /\ Parenthesized(create.text)
          /\ create.stmt # NULL /\ create.stmt.readonly
          /\ create.schema # NULL /\ Declarable(create.schema)
          /\ create.heap = [ptr \in DOMAIN create.heap |->
                               IF ptr \in {"stmt", "create"} THEN "freed" ELSE "live"]
          /\ create.ppVtab = <<"vtab">>
          /\ create.sql = SubSeq(create.text, 2, Len(create.text) - 1)
          /\ create.num_inputs = Len(create.stmt.params)
          /\ create.num_outputs = Len(create.stmt.columns)

\* sqlite3_declare_vtab failed: all four allocations were made and are freed
C12_Witness_DeclareFailed ==
    /\ CreateFailed
    /\ create.failed = <<"declare failed">>
    /\ \A ptr \in DOMAIN create.heap : create.heap[ptr] = "freed"
    /\ create.ppVtab = NULL

(***************************************************************************)
(* C13: xOpen returns SQLITE_OK or SQLITE_NOMEM; when it fails nothing it   *)
(* allocated is left (neither the cursor, nor param_argv, nor the           *)
(* statement), and when it succeeds on a table with parameters the cursor   *)
(* has a param_argv.                                                        *)
(***************************************************************************)
C13_OpenAllOrNothing ==
    last.op = "xOpen" =>
        /\ last.rc \in {"SQLITE_OK", "SQLITE_NOMEM"}
        /\ last.rc # "SQLITE_OK" =>
              (~cursors[last.cur].open /\ cursors[last.cur].allocated = {})
        /\ last.rc = "SQLITE_OK" =>
              (cursors[last.cur].open /\ cursors[last.cur].param_argv # NULL)

(***************************************************************************)
(* C14: while xCreate is in sqlite3_prepare_v2 or sqlite3_declare_vtab, and *)
(* after a failure of either until the message of the connection has been   *)
(* copied, this thread holds the mutex of the connection, so the message    *)
(* copied is the one of the call that failed, whatever another thread does; *)
(* the mutex is never left unheld or entered twice, and when xCreate        *)
(* returns every enter has had its leave.                                   *)
(***************************************************************************)
C14_MutexCoversErrmsg ==
    create.pc # "none" =>
        /\ create.mutex \in {0, 1}
        /\ create.pc \in {"prepare", "leave prepare", "declare", "leave declare",
                          "sqlite_error", "leave error"} <=> create.mutex = 1
        /\ create.pc = "sqlite_error" => create.errmsg = create.failed
        /\ (create.failed # NULL /\ create.pzErr # NULL) => create.pzErr = create.failed
        /\ create.pc = "done" => (create.mutex = 0 /\ create.enters = create.leaves)

\* sqlite3_declare_vtab failed after the other thread had left its message
\* behind: both critical sections were entered and left, and the message
\* handed to the host is that of sqlite3_declare_vtab
C14_Witness_DeclareMessage ==
    /\ create.pc = "done"
    /\ create.failed = <<"declare failed">>
    /\ create.pzErr = <<"declare failed">>
    /\ create.errmsg = <<"another thread's error">>
    /\ create.enters = 2 /\ create.leaves = 2

(***************************************************************************)
(* C15.  xClose may be called on an open cursor in any state: before any   *)
(* xFilter, on a row, after the last row, and after an xFilter or xNext    *)
(* that returned an error.  It returns SQLITE_OK, it releases the          *)
(* statement of the cursor, its param_argv and the cursor itself, each     *)
(* exactly once (a null param_argv is not released at all), and it leaves  *)
(* the table and every other cursor as they were.                          *)
(***************************************************************************)
C15_CloseReleasesAll ==
    [][last'.op = "xClose" =>
        /\ cursors[last'.cur].open
        /\ last'.rc = "SQLITE_OK"
        /\ last'.result.from = cursors[last'.cur].stmt.state
        /\ last'.result.heap
              = [ptr \in {"cursor", "stmt", "param_argv"} |->
                    IF CursorHeap(cursors[last'.cur])[ptr] = "live" THEN "freed" ELSE "none"]
        /\ cursors'[last'.cur] = ClosedCursor
        /\ vtab' = vtab
        /\ \A d \in CursorIds \ {last'.cur} : cursors'[d] = cursors[d]]_vars

\* a cursor whose xFilter or xNext failed has been closed while the other
\* cursor stands on a row
C15_Witness_ClosedAfterError ==
    /\ last.op = "xClose"
    /\ last.result.from = "ERROR"
    /\ last.result.heap.param_argv = "freed"
    /\ \E d \in CursorIds \ {last.cur} : cursors[d].open /\ cursors[d].stmt.state = "ROW"

(***************************************************************************)
(* C16.  In every schema build_create_statement produces and the host      *)
(* accepts, for a statement with n result columns and m parameters, the    *)
(* host reads exactly n+m columns: first the result columns in the order   *)
(* of the statement, none of them hidden, then the parameters in their     *)
(* order, all of them hidden; a named parameter gives its name without     *)
(* the leading marker character, an unnamed one its position counted       *)
(* from 1.                                                                 *)
(***************************************************************************)
C16_SchemaListsColumns ==
    (probe.op = "build_create_statement" /\ probe.sql # NULL /\ Declarable(probe.sql)) =>
        LET cols == DeclaredColumns(probe.sql)
            n == Len(probe.stmt.columns)
            m == Len(probe.stmt.params)
        IN  /\ Len(cols) = n + m
            /\ \A i \in 1..n :
                  /\ cols[i].name = probe.stmt.columns[i].name
                  /\ ~IsHidden(cols[i])
            /\ \A j \in 1..m :
                  /\ IsHidden(cols[n + j])
                  /\ cols[n + j].name = IF probe.stmt.params[j] # NULL
                                        THEN Tail(probe.stmt.params[j])
                                        ELSE <<ToString(j)>>

\* strlen of a char sequence that holds a NUL
Strlen(str) == (CHOOSE k \in 1..Len(str) : str[k] = 0 /\ \A j \in 1..(k - 1) : str[j] # 0) - 1

(***************************************************************************)
(* C17.  The idxStr of a mapped plan is a plain C string: with n accepted  *)
(* constraints it holds n * param_idx_size chars written by                *)
(* encode_param_idx, each in 33..96 and so none of them NUL, then one      *)
(* NUL; its strlen is n * param_idx_size, and the n slots xFilter decodes  *)
(* (one per argument) lie before the NUL.                                  *)
(***************************************************************************)
C17_PayloadIsTerminatedString ==
    (index_info.rc = "SQLITE_OK" /\ MappedPlan(index_info)) =>
        LET n == Cardinality(Accepted(index_info))
            idxStr == index_info.idxStr
        IN  /\ Len(idxStr) = n * param_idx_size + 1
            /\ \A k \in 1..(n * param_idx_size) :
                  idxStr[k] \in CharBias..(CharBias + GroupMask)
            /\ idxStr[n * param_idx_size + 1] = 0
            /\ Strlen(idxStr) = n * param_idx_size
            /\ HostArgc(index_info) = n
            /\ \A slot \in 0..(n - 1) : (slot + 1) * param_idx_size <= Strlen(idxStr)

\* hidden columns 2 and 0 constrained: two slots, holding 3 and 1
C17_Witness_TwoSlots ==
    /\ Planned /\ MappedPlan(index_info)
    /\ Len(index_info.idxStr) = 2 * param_idx_size + 1
    /\ index_info.idxStr[1] = CharBias + 3
    /\ index_info.idxStr[param_idx_size + 1] = CharBias + 1
    /\ index_info.idxStr[2 * param_idx_size + 1] = 0

(***************************************************************************)
(* C20.  In every plan xBestIndex returns with SQLITE_OK, direct or        *)
(* mapped, the argvIndex values of the accepted constraints are exactly    *)
(* 1..n, n being the number of accepted constraints, no value used twice;  *)
(* every accepted constraint has omit set; and every ignored constraint    *)
(* (on a result column, LIMIT, OFFSET) keeps argvIndex 0.                  *)
(***************************************************************************)
C20_ArgvIndexIsPermutation ==
    index_info.rc = "SQLITE_OK" =>
        LET usage == index_info.aConstraintUsage
            acc == Accepted(index_info)
        IN  /\ {usage[i].argvIndex : i \in acc} = 1..Cardinality(acc)
            /\ \A i, j \in acc : usage[i].argvIndex = usage[j].argvIndex => i = j
            /\ \A i \in acc : usage[i].omit = 1
            /\ \A i \in (1..Len(usage)) \ acc : usage[i].argvIndex = 0

\* an ignored constraint, then hidden column 1 alone: a mapped plan that
\* gives the second constraint position 1
C20_Witness_IgnoredThenSparse ==
    /\ index_info.rc = "SQLITE_OK" /\ MappedPlan(index_info)
    /\ Len(index_info.aConstraint) = 2
    /\ Accepted(index_info) = {2}
    /\ ColIndex(index_info, 2) = 1
    /\ index_info.aConstraintUsage[1] = [argvIndex |-> 0, omit |-> 0]
    /\ index_info.aConstraintUsage[2] = [argvIndex |-> 1, omit |-> 1]

\* xBestIndex has acted on a list none of whose constraints it accepts
NothingAccepted == index_info.rc # "none" /\ Accepted(index_info) = {}

\* xBestIndex gave the plan of a scan without arguments
PlansFullScan ==
    /\ index_info.rc = "SQLITE_OK"
    /\ index_info.idxStr = NULL
    /\ \A i \in 1..Len(index_info.aConstraintUsage) :
          index_info.aConstraintUsage[i].argvIndex = 0

\* the last xFilter bound nothing and stepped the statement once, from its start
SteppedUnbound ==
    /\ last.argv = <<>>
    /\ \A p \in 1..vtab.num_inputs : cursors[last.cur].stmt.bindings[p] = Unbound
    /\ last.result \in StepOutcomes
    /\ cursors[last.cur].stmt = sqlite3_step(Prepared(vtab), last.result)

\* the cursor retains no argument.  param_argc is compared as text: before
\* the first xFilter that gets past sqlite3_step it is uninitialized memory
RetainsNothing(cur) == ToString(cur.param_argc) = ToString(0)

Representable(out_constraints) == ExactSize(out_constraints).hi < Half

SizeChecked == probe.op = "AllocPayload"

====
